---------------------------- MODULE Spec2Model ----------------------------
(***************************************************************************)
(* Model of the Telegram front end of src/telegram_bot.py: the per-user    *)
(* conversation cache (an ExpiringDict), the access policy is_allowed, the *)
(* prompt/start/reset/help handlers and the periodic typing task.          *)
(*                                                                         *)
(* Time is counted in whole clock units.  MAX_SESSION_NUM and              *)
(* MAX_AGE_SECONDS keep their names and roles but are scaled down (1000    *)
(* and 1800 in the source) so that capacity and expiry are reached.        *)
(***************************************************************************)
EXTENDS Integers, Sequences, FiniteSets, TLC

\* src/telegram_bot.py:11 (1000 in the source, scaled)
MAX_SESSION_NUM == 2
\* src/telegram_bot.py:12 (1800 in the source, scaled)
MAX_AGE_SECONDS == 2

\* Bounds of the model
MaxClock == 3
MaxUuid == 3
MaxTyping == 2

\* The clock advances by at most one unit while a synchronous call runs.
ClockDrift == {0, 1}

\* user ids (update.message.from_user.id)
Users == {1, 2, 12}

\* Continuity tokens.  None is Python's None, Uuid(n) the n-th value returned
\* by generate_uuid (uuid4 values are pairwise distinct), the others are the
\* ids a backend response carries.
None == <<"none", 0>>
Uuid(n) == <<"uuid", n>>
ConvIds == {<<"conv", 1>>}
ParentIds == {<<"msg", 1>>, <<"msg", 2>>}

VARIABLES
  prev_conv_id_cache,  \* ExpiringDict: sequence of [key, value, time] in insertion order
  clock,               \* time.time()
  uuid_count,          \* number of generate_uuid calls so far
  last_call,           \* history: the last direct call of get_prev_conv_id / set_prev_conv_id
  config,              \* self.config: allowed_user_ids and allowed_chat_ids, as text
  decision,            \* history: the last direct evaluation of is_allowed and its result
  gpt3_bot,            \* self.gpt3_bot: the shared backend client's conversation_id, parent_id
  update,              \* per request: the handler it is routed to and the update's origin
  pc,                  \* per request: where its handler is suspended
  local,               \* per request: the locals of prompt / get_chatgpt_response
  typing_task,         \* per request: the task running send_typing_periodically
  sent,                \* per request: the messages sent to the chat, in order
  backend,             \* history: number of get_chat_response and reset_chat calls
  overlapped,          \* history: the requests handled while another one was in flight
  environ,             \* os.environ: DEEPL_API_KEY and DEEPL_API_PRO, text or None (unset)
  plugin,              \* the DeeplTranslatePlugin being constructed: its state and fields
  http_post            \* the last requests.post of plugin.execute, and how it ended

-----------------------------------------------------------------------------
(* ExpiringDict(max_len, max_age_seconds) of the expiringdict package, an    *)
(* OrderedDict of key -> (value, set_time).  Each access reads time.time().  *)

\* a cache built with room for one session too many
max_len_off_by_one == MAX_SESSION_NUM + 1

\* max_len=MAX_SESSION_NUM
max_len == MAX_SESSION_NUM

\* a cache built with twice the intended time-to-live
max_age_doubled == MAX_AGE_SECONDS * 2

\* max_age_seconds=MAX_AGE_SECONDS
max_age == MAX_AGE_SECONDS

Keys(d) == {d[i].key : i \in 1..Len(d)}

IndexOf(d, k) == CHOOSE i \in 1..Len(d) : d[i].key = k

\* OrderedDict.__delitem__
DelItem(d, k) == SelectSeq(d, LAMBDA e : e.key # k)

\* item age < max_age, the liveness test of __contains__ and __getitem__
IsLive(e, t) == t - e.time < max_age

\* ExpiringDict.__contains__: a stored but expired key is deleted and reported absent
Contains(d, k, t) ==
  IF k \notin Keys(d) THEN [found |-> FALSE, d |-> d]
  ELSE IF IsLive(d[IndexOf(d, k)], t) THEN [found |-> TRUE, d |-> d]
  ELSE [found |-> FALSE, d |-> DelItem(d, k)]

\* ExpiringDict.__getitem__: KeyError for a missing or expired key (the
\* expired key is deleted); the stored time is not touched by a read
GetItem(d, k, t) ==
  IF k \notin Keys(d) THEN [raised |-> TRUE, value |-> <<None, None>>, d |-> d]
  ELSE IF IsLive(d[IndexOf(d, k)], t)
       THEN [raised |-> FALSE, value |-> d[IndexOf(d, k)].value, d |-> d]
  ELSE [raised |-> TRUE, value |-> <<None, None>>, d |-> DelItem(d, k)]

\* OrderedDict.popitem(last=False)
PopOldest(d) == IF Len(d) = 0 THEN d ELSE Tail(d)

\* OrderedDict.__setitem__: an existing key keeps its position
RawSet(d, k, v, t) ==
  IF k \in Keys(d)
  THEN [d EXCEPT ![IndexOf(d, k)] = [key |-> k, value |-> v, time |-> t]]
  ELSE Append(d, [key |-> k, value |-> v, time |-> t])

\* a __setitem__ that leaves the value of a key it already holds
SetItem_keep_existing(d, k, v, t) ==
  IF k \in Keys(d) THEN d ELSE Append(d, [key |-> k, value |-> v, time |-> t])

\* ExpiringDict.__setitem__: at max_len the key itself is dropped when it is
\* live, otherwise the oldest entry is
SetItem(d, k, v, t) ==
  LET c == Contains(d, k, t)
      room == IF Len(d) = max_len
              THEN IF c.found THEN DelItem(c.d, k) ELSE PopOldest(c.d)
              ELSE d
  IN RawSet(room, k, v, t)


-----------------------------------------------------------------------------
(* The module-level cache functions.  Each is a synchronous call; t is the  *)
(* clock when it starts, d1 and d2 what the clock gains between its reads.   *)

\* generate_uuid: the n-th call returns the n-th fresh token
generate_uuid(n) == Uuid(n)

\* get_prev_conv_id creating its entry with the pair reversed
get_prev_conv_id_pair_reversed(d, user, t, d1, d2, n) ==
  LET c == Contains(d, user, t)
      stored == IF c.found THEN c.d
                ELSE SetItem(c.d, user, <<generate_uuid(n + 1), None>>, t + d1)
      g == GetItem(stored, user, t + d1 + d2)
  IN [d |-> g.d, raised |-> g.raised, ret |-> g.value,
      created |-> ~c.found,
      uuid_count |-> IF c.found THEN n ELSE n + 1,
      clock |-> t + d1 + d2]

\* get_prev_conv_id(user): `user not in cache` read at t, the store at t + d1,
\* the lookup of line 27 at t + d1 + d2
get_prev_conv_id(d, user, t, d1, d2, n) ==
  LET c == Contains(d, user, t)
      stored == IF c.found THEN c.d
                ELSE SetItem(c.d, user, <<None, generate_uuid(n + 1)>>, t + d1)
      g == GetItem(stored, user, t + d1 + d2)
  IN [d |-> g.d, raised |-> g.raised, ret |-> g.value,
      created |-> ~c.found,
      uuid_count |-> IF c.found THEN n ELSE n + 1,
      clock |-> t + d1 + d2]

\* set_prev_conv_id storing its two tokens in the wrong order
set_prev_conv_id_swapped(d, user, conversation_id, prev_conv_id, t) ==
  SetItem(d, user, <<prev_conv_id, conversation_id>>, t)

\* set_prev_conv_id(user, conversation_id, prev_conv_id)
set_prev_conv_id(d, user, conversation_id, prev_conv_id, t) ==
  SetItem(d, user, <<conversation_id, prev_conv_id>>, t)

\* last_call before any call
NoCall ==
  [op |-> "none", user |-> 0, value |-> <<None, None>>, raised |-> FALSE,
   ret |-> <<None, None>>, t1 |-> 0, after_set |-> FALSE, age |-> -1]

\* age of the entry stored under k at time t, -1 when nothing is stored
AgeOf(d, k, t) == IF k \in Keys(d) THEN t - d[IndexOf(d, k)].time ELSE -1

\* What a call of get_prev_conv_id returned (or that it raised KeyError) and
\* the clock when it returned (t1).  after_set: the call directly follows a
\* set_prev_conv_id of the same user with no time passing before or during
\* it; value is then the pair that call stored.  age: the age of the user's
\* stored entry when the call started.
GetRecord(user, r) ==
  LET follows == /\ last_call.op = "set"
                 /\ last_call.user = user
                 /\ last_call.t1 = clock
                 /\ r.clock = clock
  IN [op |-> "get", user |-> user,
      value |-> IF follows THEN last_call.value ELSE <<None, None>>,
      raised |-> r.raised, ret |-> r.ret, t1 |-> r.clock, after_set |-> follows,
      age |-> AgeOf(prev_conv_id_cache, user, clock)]

\* the arguments of a call of set_prev_conv_id
SetRecord(user, v) ==
  [op |-> "set", user |-> user, value |-> v, raised |-> FALSE,
   ret |-> <<None, None>>, t1 |-> clock, after_set |-> FALSE, age |-> -1]

\* whether a call of get_prev_conv_id(user) now stays within the model's bounds
CanGet(user, d1, d2) ==
  /\ d1 + d2 \in ClockDrift
  /\ clock + d1 + d2 <= MaxClock
  /\ Contains(prev_conv_id_cache, user, clock).found \/ uuid_count < MaxUuid

\* a direct call of get_prev_conv_id
CallGet(user, d1, d2) ==
  /\ CanGet(user, d1, d2)
  /\ LET r == get_prev_conv_id(prev_conv_id_cache, user, clock, d1, d2, uuid_count)
     IN /\ prev_conv_id_cache' = r.d
        /\ uuid_count' = r.uuid_count
        /\ clock' = r.clock
        /\ last_call' = GetRecord(user, r)

\* a direct call of set_prev_conv_id
CallSet(user, c, p) ==
  /\ prev_conv_id_cache' = set_prev_conv_id(prev_conv_id_cache, user, c, p, clock)
  /\ last_call' = SetRecord(user, <<c, p>>)
  /\ UNCHANGED <<clock, uuid_count>>

\* time passes between calls
Tick ==
  /\ clock < MaxClock
  /\ clock' = clock + 1
  /\ UNCHANGED <<prev_conv_id_cache, uuid_count, last_call>>

cacheVars == <<prev_conv_id_cache, clock, uuid_count, last_call>>

InitCache ==
  /\ prev_conv_id_cache = <<>>
  /\ clock = 0
  /\ uuid_count = 0
  /\ last_call = NoCall

-----------------------------------------------------------------------------
(* The DeepL translation plugin of src/bot/plugins/deepl.py.  Environment    *)
(* values are text, sequences of one-character strings, or None when unset.  *)

PRO_URL == "https://api.deepl.com/v2/translate"
FREE_URL == "https://api-free.deepl.com/v2/translate"

TRUE_TEXT == <<"t", "r", "u", "e">>
FALSE_TEXT == <<"f", "a", "l", "s", "e">>

\* values of DEEPL_API_KEY: unset, empty, two keys
KeyValues == {None, <<>>, <<"k", "1">>, <<"k", "2">>}

\* values of DEEPL_API_PRO: unset, empty, spellings of true, and others
ProValues ==
  {None, <<>>, TRUE_TEXT, <<"T", "r", "u", "e">>, <<"T", "R", "U", "E">>,
   FALSE_TEXT, <<"1">>}

Environs == [DEEPL_API_KEY : KeyValues, DEEPL_API_PRO : ProValues]

Texts == {"hello", "thanks"}
Languages == {"DE", "FR"}

\* how requests.post(...).json()["translations"][0]["text"] ends: with the
\* translation, with an exception of requests, or with a KeyError on a
\* response that carries no translation
PostOutcomes == {"translated", "RequestException", "KeyError"}

\* str.lower() on the letters that occur
LowerChar(c) ==
  CASE c = "T" -> "t"
    [] c = "R" -> "r"
    [] c = "U" -> "u"
    [] c = "E" -> "e"
    [] OTHER -> c

lower(s) == [i \in 1..Len(s) |-> LowerChar(s[i])]

\* os.getenv(name, default)
getenv(env, name, default) == IF env[name] = None THEN default ELSE env[name]

\* Python truth of a str-or-None value
Truthy(v) == v # None /\ v # <<>>

NoPlugin == [state |-> "none", api_key |-> None, api_pro |-> FALSE]

\* __init__ with a check of the key only
DeeplTranslatePlugin_key_only(env) ==
  LET deepl_api_key == getenv(env, "DEEPL_API_KEY", None)
      deepl_api_pro == lower(getenv(env, "DEEPL_API_PRO", FALSE_TEXT)) = TRUE_TEXT
  IN IF ~Truthy(deepl_api_key)
     THEN [NoPlugin EXCEPT !.state = "ValueError"]
     ELSE [state |-> "constructed", api_key |-> deepl_api_key, api_pro |-> deepl_api_pro]

\* DeeplTranslatePlugin.__init__, lines 14-20
DeeplTranslatePlugin(env) ==
  LET deepl_api_key == getenv(env, "DEEPL_API_KEY", None)
      deepl_api_pro == lower(getenv(env, "DEEPL_API_PRO", FALSE_TEXT)) = TRUE_TEXT
  IN IF ~Truthy(deepl_api_key) \/ ~deepl_api_pro
     THEN [NoPlugin EXCEPT !.state = "ValueError"]
     ELSE [state |-> "constructed", api_key |-> deepl_api_key, api_pro |-> deepl_api_pro]

NoPost ==
  [url |-> "none", authorization |-> None, text |-> "none", target_lang |-> "none",
   outcome |-> "none"]

\* execute with the two endpoints exchanged
execute_urls_exchanged(self, text, to_language) ==
  [url |-> IF self.api_pro THEN FREE_URL ELSE PRO_URL,
   authorization |-> <<"DeepL-Auth-Key", self.api_key>>,
   text |-> text, target_lang |-> to_language, outcome |-> "none"]

\* DeeplTranslatePlugin.execute, lines 39-56: the request it posts
execute(self, text, to_language) ==
  [url |-> IF self.api_pro THEN PRO_URL ELSE FREE_URL,
   authorization |-> <<"DeepL-Auth-Key", self.api_key>>,
   text |-> text, target_lang |-> to_language, outcome |-> "none"]

pluginVars == <<environ, plugin, http_post>>

\* the plugin is constructed under the environment
Construct ==
  /\ plugin.state = "none"
  /\ plugin' = DeeplTranslatePlugin(environ)
  /\ UNCHANGED <<environ, http_post>>

\* the translate function of a constructed plugin is called
Execute(text, to_language, outcome) ==
  /\ plugin.state = "constructed"
  /\ http_post' = [execute(plugin, text, to_language) EXCEPT !.outcome = outcome]
  /\ UNCHANGED <<environ, plugin>>

-----------------------------------------------------------------------------
(* The access policy.  Configuration values are text: a string is a sequence *)
(* of one-character strings.                                                 *)

\* telegram.constants.ChatType
PRIVATE == "private"
GROUP == "group"
SUPERGROUP == "supergroup"
CHANNEL == "channel"
ChatTypes == {PRIVATE, GROUP, SUPERGROUP, CHANNEL}

\* update.message.chat.id: a private chat carries its user's id, groups are negative
ChatIds == Users \cup {-5, -57}

\* the wildcard "*"
Star == <<"*">>

\* Allow-lists as they appear in the configuration (text), each with the set
\* of ids it lists (ids); the wildcard lists no id.
UserLists ==
  { [text |-> Star, ids |-> {}],
    [text |-> <<"1", ",", "2">>, ids |-> {1, 2}],
    [text |-> <<"1", "2">>, ids |-> {12}],
    [text |-> <<"2">>, ids |-> {2}] }

ChatLists ==
  { [text |-> Star, ids |-> {}],
    [text |-> <<"-", "5">>, ids |-> {-5}],
    [text |-> <<"-", "5", "7", ",", "1">>, ids |-> {-57, 1}],
    [text |-> <<"1", "2", ",", "-", "5">>, ids |-> {12, -5}] }

Configs ==
  { [allowed_user_ids |-> u.text, allowed_chat_ids |-> c.text] :
      u \in UserLists, c \in ChatLists }

DefaultConfig ==
  [allowed_user_ids |-> <<"1", ",", "2">>, allowed_chat_ids |-> <<"-", "5">>]

DigitChar == <<"0", "1", "2", "3", "4", "5", "6", "7", "8", "9">>

RECURSIVE Digits(_)
Digits(n) ==
  IF n < 10 THEN <<DigitChar[n + 1]>>
  ELSE Digits(n \div 10) \o <<DigitChar[(n % 10) + 1]>>

\* str(id) of an int
str(n) == IF n < 0 THEN <<"-">> \o Digits(0 - n) ELSE Digits(n)

RECURSIVE SplitFrom(_, _, _)
SplitFrom(s, i, cur) ==
  IF i > Len(s) THEN <<cur>>
  ELSE IF s[i] = "," THEN <<cur>> \o SplitFrom(s, i + 1, <<>>)
  ELSE SplitFrom(s, i + 1, Append(cur, s[i]))

\* s.split(",")
split(s) == SplitFrom(s, 1, <<>>)

\* x in lst
In(x, lst) == \E i \in 1..Len(lst) : lst[i] = x

\* whether text x occurs inside text s (the `in` of two strings)
Substring(x, s) ==
  \E i \in 1..(Len(s) - Len(x) + 1) : SubSeq(s, i, i + Len(x) - 1) = x

\* is_allowed testing the ids against the raw configuration text, not its split
is_allowed_unsplit(cfg, from_user_id, chat_id, chat_type) ==
  IF cfg.allowed_user_ids = Star /\ chat_type = PRIVATE THEN TRUE
  ELSE IF cfg.allowed_chat_ids = Star /\ chat_type = GROUP THEN TRUE
  ELSE LET is_allow_user ==
             Substring(str(from_user_id), cfg.allowed_user_ids) /\ chat_type = PRIVATE
           is_allow_group ==
             /\ Substring(str(chat_id), cfg.allowed_chat_ids)
             /\ chat_type \in {GROUP, SUPERGROUP}
       IN is_allow_group \/ is_allow_user

\* a user wildcard that forgets to look at the chat type
is_allowed_any_chat(cfg, from_user_id, chat_id, chat_type) ==
  IF cfg.allowed_user_ids = Star THEN TRUE
  ELSE IF cfg.allowed_chat_ids = Star /\ chat_type = GROUP THEN TRUE
  ELSE LET is_allow_user ==
             In(str(from_user_id), split(cfg.allowed_user_ids)) /\ chat_type = PRIVATE
           is_allow_group ==
             /\ In(str(chat_id), split(cfg.allowed_chat_ids))
             /\ chat_type \in {GROUP, SUPERGROUP}
       IN is_allow_group \/ is_allow_user

\* ChatGPT3TelegramBot.is_allowed(update)
is_allowed(cfg, from_user_id, chat_id, chat_type) ==
  IF cfg.allowed_user_ids = Star /\ chat_type = PRIVATE THEN TRUE
  ELSE IF cfg.allowed_chat_ids = Star /\ chat_type = GROUP THEN TRUE
  ELSE LET is_allow_user ==
             In(str(from_user_id), split(cfg.allowed_user_ids)) /\ chat_type = PRIVATE
           is_allow_group ==
             /\ In(str(chat_id), split(cfg.allowed_chat_ids))
             /\ chat_type \in {GROUP, SUPERGROUP}
       IN is_allow_group \/ is_allow_user

NoDecision ==
  [from_user_id |-> 0, chat_id |-> 0, chat_type |-> "none", allowed |-> FALSE]

\* one evaluation of is_allowed on an update from from_user_id in chat_id
CheckAllowed(from_user_id, chat_id, chat_type) ==
  /\ decision' = [from_user_id |-> from_user_id, chat_id |-> chat_id,
                  chat_type |-> chat_type,
                  allowed |-> is_allowed(config, from_user_id, chat_id, chat_type)]
  /\ UNCHANGED <<config, pluginVars>>

accessVars == <<config, decision, pluginVars>>

-----------------------------------------------------------------------------
(* The handlers.  asyncio runs one handler at a time and switches only at an *)
(* await: every action below is the code between two suspension points.      *)

\* updates in flight
Reqs == {1, 2}

\* the users who write to the bot: 1 is allowed in private chats, 12 is not
BotUsers == {1, 12}

\* the handlers registered by run()
Handlers == {"prompt", "start", "reset", "help"}

\* the chats a message of user u comes from: the user's private chat, and
\* for user 12 also the group -5, which DefaultConfig admits
ChatsOf(u) ==
  IF u = 12
  THEN { [id |-> u, type |-> PRIVATE], [id |-> -5, type |-> GROUP] }
  ELSE { [id |-> u, type |-> PRIVATE] }

\* texts sent to the chat
DISALLOWED == "Sorry, you are not allowed to use this bot. You can check out the source code at https://github.com/n3d1117/chatgpt-telegram-bot"
FALLBACK == "I'm having some trouble talking to you, please try again later."
STARTED == "I'm a Chat-GPT3 Bot, please talk to me!"
RESET_DONE == "Done!"
HELP == "/start - Start the bot\n/reset - Reset conversation\n/help - Help menu\n\nOpen source at https://github.com/n3d1117/chatgpt-telegram-bot"
REPLY == "hi!"

\* the message id the backend gives its answer to request r
MessageId(r) == <<"msg", r>>

\* the token reset_chat gives the client as parent_id after the n-th reset
ResetToken(n) == <<"reset", n>>

NoUpdate == [handler |-> "none", from_user |-> 0, chat_id |-> 0, chat_type |-> "none"]

\* conversation_id, prev_conv_id: the locals of line 127; created: the lookup
\* made the entry; called, sent_*: get_chat_response was invoked, and the
\* tokens the shared client held then; failure: what the try block raised;
\* response: the tokens of the backend's response; returned, message: what
\* get_chatgpt_response returned
NoLocal ==
  [conversation_id |-> None, prev_conv_id |-> None, created |-> FALSE,
   called |-> FALSE, sent_conversation_id |-> None, sent_parent_id |-> None,
   failure |-> "none", response |-> <<None, None>>,
   message |-> "none", returned |-> FALSE]

NoTask == [state |-> "none", must_cancel |-> FALSE, calls |-> 0]

botVars == <<gpt3_bot, update, pc, local, typing_task, sent, backend, overlapped>>

InitBot ==
  /\ gpt3_bot = [conversation_id |-> None, parent_id |-> None]
  /\ update = [r \in Reqs |-> NoUpdate]
  /\ pc = [r \in Reqs |-> "idle"]
  /\ local = [r \in Reqs |-> NoLocal]
  /\ typing_task = [r \in Reqs |-> NoTask]
  /\ sent = [r \in Reqs |-> <<>>]
  /\ backend = [calls |-> 0, resets |-> 0]
  /\ overlapped = {}

\* the requests whose handler has started and not yet returned
InFlight == {q \in Reqs : pc[q] \notin {"idle", "done", "raised"}}

\* request r starts: it and the requests in flight now overlap
Overlap(r) == overlapped' = IF InFlight = {} THEN overlapped
                            ELSE overlapped \cup InFlight \cup {r}

\* what the try block of get_chatgpt_response can raise: "lookup" the KeyError
\* of line 27, "backend" an exception of get_chat_response, "response" the
\* KeyError of line 135 on a response without its continuity tokens
Failures == {"lookup", "backend", "response"}

\* an except clause that catches KeyError only
except_KeyError(failure) ==
  IF failure \in {"lookup", "response"}
  THEN [raised |-> FALSE, message |-> FALLBACK]
  ELSE [raised |-> TRUE, message |-> "none"]

\* lines 139-141: except Exception returns the fallback response
except_Exception(failure) == [raised |-> FALSE, message |-> FALLBACK]

\* the tokens put on the shared client in the wrong fields
set_bot_tokens_swapped(conversation_id, prev_conv_id) ==
  [conversation_id |-> prev_conv_id, parent_id |-> conversation_id]

\* lines 129-130: the tokens put on the shared client
set_bot_tokens(conversation_id, prev_conv_id) ==
  [conversation_id |-> conversation_id, parent_id |-> prev_conv_id]

\* update r is delivered next: updates are taken in order
Arrives(r) == pc[r] = "idle" /\ \A q \in Reqs : q < r => pc[q] # "idle"

\* typing_task.cancel() ignored
cancel_ignored(task) == task

\* Task.cancel(): a task that has not finished gets CancelledError thrown at
\* its next step, whether it has not started yet or is suspended in an await
cancel(task) ==
  IF task.state \in {"scheduled", "emitting", "sleeping"}
  THEN [task EXCEPT !.must_cancel = TRUE]
  ELSE task

\* help: replies with the menu, with no access check
Help(r, u, chat) ==
  /\ Arrives(r)
  /\ update' = [update EXCEPT ![r] = [handler |-> "help", from_user |-> u,
                                      chat_id |-> chat.id, chat_type |-> chat.type]]
  /\ pc' = [pc EXCEPT ![r] = "send_help"]
  /\ Overlap(r)
  /\ UNCHANGED <<cacheVars, accessVars, gpt3_bot, local, typing_task, sent, backend>>

\* start, lines 64-70
Start(r, u, chat) ==
  /\ Arrives(r)
  /\ update' = [update EXCEPT ![r] = [handler |-> "start", from_user |-> u,
                                      chat_id |-> chat.id, chat_type |-> chat.type]]
  /\ pc' = [pc EXCEPT ![r] = IF is_allowed(config, u, chat.id, chat.type)
                               THEN "send_start" ELSE "send_disallowed"]
  /\ Overlap(r)
  /\ UNCHANGED <<cacheVars, accessVars, gpt3_bot, local, typing_task, sent, backend>>

\* a reset that also drops the requesting user's cache entry
Reset_clearing_entry(r, u, chat) ==
  /\ Arrives(r)
  /\ update' = [update EXCEPT ![r] = [handler |-> "reset", from_user |-> u,
                                      chat_id |-> chat.id, chat_type |-> chat.type]]
  /\ IF is_allowed(config, u, chat.id, chat.type)
     THEN /\ backend' = [backend EXCEPT !.resets = backend.resets + 1]
          /\ gpt3_bot' = [conversation_id |-> None,
                          parent_id |-> ResetToken(backend.resets + 1)]
          /\ prev_conv_id_cache' = DelItem(prev_conv_id_cache, u)
          /\ pc' = [pc EXCEPT ![r] = "send_done"]
     ELSE /\ pc' = [pc EXCEPT ![r] = "send_disallowed"]
          /\ UNCHANGED <<backend, gpt3_bot, prev_conv_id_cache>>
  /\ Overlap(r)
  /\ UNCHANGED <<clock, uuid_count, last_call, accessVars, local, typing_task, sent>>

\* reset, lines 76-83: an allowed reset calls gpt3_bot.reset_chat()
Reset(r, u, chat) ==
  /\ Arrives(r)
  /\ update' = [update EXCEPT ![r] = [handler |-> "reset", from_user |-> u,
                                      chat_id |-> chat.id, chat_type |-> chat.type]]
  /\ IF is_allowed(config, u, chat.id, chat.type)
     THEN /\ backend' = [backend EXCEPT !.resets = backend.resets + 1]
          /\ gpt3_bot' = [conversation_id |-> None,
                          parent_id |-> ResetToken(backend.resets + 1)]
          /\ pc' = [pc EXCEPT ![r] = "send_done"]
     ELSE /\ pc' = [pc EXCEPT ![r] = "send_disallowed"]
          /\ UNCHANGED <<backend, gpt3_bot>>
  /\ Overlap(r)
  /\ UNCHANGED <<cacheVars, accessVars, local, typing_task, sent>>

\* a prompt that creates its typing task before it checks the access
PromptDenied_typing_first(r, u, chat) ==
  /\ Arrives(r)
  /\ ~is_allowed(config, u, chat.id, chat.type)
  /\ update' = [update EXCEPT ![r] = [handler |-> "prompt", from_user |-> u,
                                      chat_id |-> chat.id, chat_type |-> chat.type]]
  /\ typing_task' = [typing_task EXCEPT ![r] = [NoTask EXCEPT !.state = "scheduled"]]
  /\ pc' = [pc EXCEPT ![r] = "send_disallowed"]
  /\ Overlap(r)
  /\ UNCHANGED <<cacheVars, accessVars, gpt3_bot, local, sent, backend>>

\* prompt, lines 97-104: the update is not allowed
PromptDenied(r, u, chat) ==
  /\ Arrives(r)
  /\ ~is_allowed(config, u, chat.id, chat.type)
  /\ update' = [update EXCEPT ![r] = [handler |-> "prompt", from_user |-> u,
                                      chat_id |-> chat.id, chat_type |-> chat.type]]
  /\ pc' = [pc EXCEPT ![r] = "send_disallowed"]
  /\ Overlap(r)
  /\ UNCHANGED <<cacheVars, accessVars, gpt3_bot, local, typing_task, sent, backend>>

\* prompt, lines 113-115, after get_chatgpt_response returned message: the
\* typing task is cancelled and the reply is sent.  When get_chatgpt_response
\* raised instead, prompt ends there with that exception.
AfterResponse(r, task, loc, res) ==
  IF res.raised
  THEN /\ local' = [local EXCEPT ![r] = loc]
       /\ typing_task' = [typing_task EXCEPT ![r] = task]
       /\ pc' = [pc EXCEPT ![r] = "raised"]
  ELSE /\ local' = [local EXCEPT ![r] =
                      [loc EXCEPT !.message = res.message, !.returned = TRUE]]
       /\ typing_task' = [typing_task EXCEPT ![r] = cancel(task)]
       /\ pc' = [pc EXCEPT ![r] = "send_reply"]

\* prompt, lines 97-112 with get_chatgpt_response, lines 126-132: the typing
\* task is created, the continuity tokens are looked up and put on the
\* shared client, and get_chat_response is called with them.  A KeyError of
\* the lookup is caught by line 139: get_chatgpt_response returns the
\* fallback without suspending, and prompt goes on to lines 113-115.
PromptAllowed(r, u, chat, d1, d2) ==
  /\ Arrives(r)
  /\ is_allowed(config, u, chat.id, chat.type)
  /\ CanGet(u, d1, d2)
  /\ update' = [update EXCEPT ![r] = [handler |-> "prompt", from_user |-> u,
                                      chat_id |-> chat.id, chat_type |-> chat.type]]
  /\ Overlap(r)
  /\ LET g == get_prev_conv_id(prev_conv_id_cache, u, clock, d1, d2, uuid_count)
         task == [NoTask EXCEPT !.state = "scheduled"]
     IN /\ prev_conv_id_cache' = g.d
        /\ uuid_count' = g.uuid_count
        /\ clock' = g.clock
        /\ IF g.raised
           THEN /\ AfterResponse(r, task,
                                 [NoLocal EXCEPT !.failure = "lookup",
                                                 !.created = g.created],
                                 except_Exception("lookup"))
                /\ UNCHANGED <<gpt3_bot, backend>>
           ELSE /\ gpt3_bot' = set_bot_tokens(g.ret[1], g.ret[2])
                /\ local' = [local EXCEPT ![r] =
                     [NoLocal EXCEPT !.conversation_id = g.ret[1],
                                     !.prev_conv_id = g.ret[2],
                                     !.created = g.created,
                                     !.called = TRUE,
                                     !.sent_conversation_id = gpt3_bot'.conversation_id,
                                     !.sent_parent_id = gpt3_bot'.parent_id]]
                /\ backend' = [backend EXCEPT !.calls = backend.calls + 1]
                /\ typing_task' = [typing_task EXCEPT ![r] = task]
                /\ pc' = [pc EXCEPT ![r] = "await_backend"]
  /\ UNCHANGED <<last_call, accessVars, sent>>

\* The backend call of request r can resume: the typing task, created before
\* the call suspended, has taken its first step by then.
Resolves(r) == pc[r] = "await_backend" /\ typing_task[r].state # "scheduled"

\* get_chatgpt_response, lines 132-138, then prompt, lines 113-115: the
\* backend answers with a reply and its continuity tokens, which are stored
BackendReplies(r, c, p) ==
  /\ Resolves(r)
  /\ prev_conv_id_cache' =
       set_prev_conv_id(prev_conv_id_cache, update[r].from_user, c, p, clock)
  /\ AfterResponse(r, typing_task[r], [local[r] EXCEPT !.response = <<c, p>>],
                   [raised |-> FALSE, message |-> REPLY])
  /\ UNCHANGED <<clock, uuid_count, last_call, accessVars, gpt3_bot, update, sent,
                 backend, overlapped>>

\* a failure path that still runs set_prev_conv_id, with no tokens to store
BackendFails_storing(r, failure) ==
  /\ Resolves(r)
  /\ prev_conv_id_cache' =
       set_prev_conv_id(prev_conv_id_cache, update[r].from_user, None, None, clock)
  /\ AfterResponse(r, typing_task[r], [local[r] EXCEPT !.failure = failure],
                   except_Exception(failure))
  /\ UNCHANGED <<clock, uuid_count, last_call, accessVars, gpt3_bot, update, sent,
                 backend, overlapped>>

\* get_chatgpt_response, lines 132-141, then prompt, lines 113-115: the
\* backend call raises ("backend"), or its response lacks "conversation_id"
\* or "parent_id" so that line 135 raises before set_prev_conv_id is entered
\* ("response")
BackendFails(r, failure) ==
  /\ Resolves(r)
  /\ AfterResponse(r, typing_task[r], [local[r] EXCEPT !.failure = failure],
                   except_Exception(failure))
  /\ UNCHANGED <<cacheVars, accessVars, gpt3_bot, update, sent, backend, overlapped>>

\* the text a handler suspended in a send is sending
Outgoing(r) ==
  CASE pc[r] = "send_disallowed" -> DISALLOWED
    [] pc[r] = "send_start" -> STARTED
    [] pc[r] = "send_done" -> RESET_DONE
    [] pc[r] = "send_help" -> HELP
    [] pc[r] = "send_reply" -> local[r].message

\* context.bot.send_message / reply_text completes and the handler returns
Send(r) ==
  /\ pc[r] \in {"send_disallowed", "send_start", "send_done", "send_help", "send_reply"}
  /\ sent' = [sent EXCEPT ![r] = Append(sent[r], Outgoing(r))]
  /\ pc' = [pc EXCEPT ![r] = "done"]
  /\ UNCHANGED <<cacheVars, accessVars, gpt3_bot, update, local, typing_task, backend, overlapped>>

\* send_typing_periodically, first step: the task starts and calls send_chat_action
TypingStarts(r) ==
  /\ typing_task[r].state = "scheduled"
  /\ ~typing_task[r].must_cancel
  /\ typing_task' = [typing_task EXCEPT ![r].state = "emitting",
                                        ![r].calls = typing_task[r].calls + 1]
  /\ UNCHANGED <<cacheVars, accessVars, gpt3_bot, update, pc, local, sent, backend, overlapped>>

\* send_chat_action returned: the task goes to asyncio.sleep(every_seconds)
TypingSleeps(r) ==
  /\ typing_task[r].state = "emitting"
  /\ ~typing_task[r].must_cancel
  /\ typing_task' = [typing_task EXCEPT ![r].state = "sleeping"]
  /\ UNCHANGED <<cacheVars, accessVars, gpt3_bot, update, pc, local, sent, backend, overlapped>>

\* the sleep is over: the loop calls send_chat_action again
TypingWakes(r) ==
  /\ typing_task[r].state = "sleeping"
  /\ ~typing_task[r].must_cancel
  /\ typing_task[r].calls < MaxTyping
  /\ typing_task' = [typing_task EXCEPT ![r].state = "emitting",
                                        ![r].calls = typing_task[r].calls + 1]
  /\ UNCHANGED <<cacheVars, accessVars, gpt3_bot, update, pc, local, sent, backend, overlapped>>

\* send_chat_action raises: the task ends with that exception
TypingFails(r) ==
  /\ typing_task[r].state = "emitting"
  /\ ~typing_task[r].must_cancel
  /\ typing_task' = [typing_task EXCEPT ![r].state = "failed"]
  /\ UNCHANGED <<cacheVars, accessVars, gpt3_bot, update, pc, local, sent, backend, overlapped>>

\* the task's next step after cancel(): CancelledError ends it
TypingCancelled(r) ==
  /\ typing_task[r].state \in {"scheduled", "emitting", "sleeping"}
  /\ typing_task[r].must_cancel
  /\ typing_task' = [typing_task EXCEPT ![r].state = "cancelled"]
  /\ UNCHANGED <<cacheVars, accessVars, gpt3_bot, update, pc, local, sent, backend, overlapped>>

\* Time passes while the bot runs.  The clock is read by cache lookups and
\* stores only, and only ages matter: time is let pass while an entry is
\* stored and a request can still read the clock.
TickBot ==
  /\ Tick
  /\ prev_conv_id_cache # <<>>
  /\ \E r \in Reqs : pc[r] \in {"idle", "await_backend"}
  /\ UNCHANGED <<accessVars, botVars>>

vars == <<cacheVars, accessVars, botVars>>

\* the environment of a deployment without the translation plugin
DefaultEnviron == [DEEPL_API_KEY |-> None, DEEPL_API_PRO |-> None]

Init ==
  /\ InitCache
  /\ config = DefaultConfig
  /\ decision = NoDecision
  /\ InitBot
  /\ environ = DefaultEnviron
  /\ plugin = NoPlugin
  /\ http_post = NoPost

Next ==
  \/ \E r \in Reqs, u \in BotUsers : \E chat \in ChatsOf(u) : Help(r, u, chat)
  \/ \E r \in Reqs, u \in BotUsers : \E chat \in ChatsOf(u) : Start(r, u, chat)
  \/ \E r \in Reqs, u \in BotUsers : \E chat \in ChatsOf(u) : Reset(r, u, chat)
  \/ \E r \in Reqs, u \in BotUsers : \E chat \in ChatsOf(u) : PromptDenied(r, u, chat)
  \/ \E r \in Reqs, u \in BotUsers, d1 \in ClockDrift, d2 \in ClockDrift : \E chat \in ChatsOf(u) :
        PromptAllowed(r, u, chat, d1, d2)
  \/ \E r \in Reqs, c \in ConvIds : BackendReplies(r, c, MessageId(r))
  \/ \E r \in Reqs, f \in {"backend", "response"} : BackendFails(r, f)
  \/ \E r \in Reqs : Send(r)
  \/ \E r \in Reqs : TypingStarts(r)
  \/ \E r \in Reqs : TypingSleeps(r)
  \/ \E r \in Reqs : TypingWakes(r)
  \/ \E r \in Reqs : TypingFails(r)
  \/ \E r \in Reqs : TypingCancelled(r)
  \/ TickBot

\* the bot handling updates under the configuration DefaultConfig
Spec == Init /\ [][Next]_vars

NextCache ==
  \/ \E u \in Users, d1 \in ClockDrift, d2 \in ClockDrift :
        CallGet(u, d1, d2) /\ UNCHANGED <<accessVars, botVars>>
  \/ \E u \in Users, c \in ConvIds, p \in ParentIds :
        CallSet(u, c, p) /\ UNCHANGED <<accessVars, botVars>>
  \/ Tick /\ UNCHANGED <<accessVars, botVars>>

\* direct calls of the cache functions
SpecCache == Init /\ [][NextCache]_vars

\* evaluations of is_allowed under every configuration of Configs
NextAccess ==
  \E u \in Users, c \in ChatIds, k \in ChatTypes :
     CheckAllowed(u, c, k) /\ UNCHANGED <<cacheVars, botVars>>

\* the bot after construction, under any configuration of Configs
InitAccess ==
  /\ prev_conv_id_cache = <<>>
  /\ clock = 0
  /\ uuid_count = 0
  /\ last_call = NoCall
  /\ config \in Configs
  /\ decision = NoDecision
  /\ gpt3_bot = [conversation_id |-> None, parent_id |-> None]
  /\ update = [r \in Reqs |-> NoUpdate]
  /\ pc = [r \in Reqs |-> "idle"]
  /\ local = [r \in Reqs |-> NoLocal]
  /\ typing_task = [r \in Reqs |-> NoTask]
  /\ sent = [r \in Reqs |-> <<>>]
  /\ backend = [calls |-> 0, resets |-> 0]
  /\ overlapped = {}
  /\ environ = DefaultEnviron
  /\ plugin = NoPlugin
  /\ http_post = NoPost

SpecAccess == InitAccess /\ [][NextAccess]_vars

\* the tokens an earlier, finished exchange of user 1 left in the cache
EarlierResponse == <<<<"conv", 1>>, MessageId(0)>>

\* the bot after one exchange of user 1 in a private chat: the lookup made
\* the first token, the client was given (None, that token), and the
\* response's tokens were stored at time 0
InitEarlier ==
  /\ prev_conv_id_cache = <<[key |-> 1, value |-> EarlierResponse, time |-> 0]>>
  /\ clock = 0
  /\ uuid_count = 1
  /\ last_call = NoCall
  /\ config = DefaultConfig
  /\ decision = NoDecision
  /\ gpt3_bot = [conversation_id |-> None, parent_id |-> Uuid(1)]
  /\ update = [r \in Reqs |-> NoUpdate]
  /\ pc = [r \in Reqs |-> "idle"]
  /\ local = [r \in Reqs |-> NoLocal]
  /\ typing_task = [r \in Reqs |-> NoTask]
  /\ sent = [r \in Reqs |-> <<>>]
  /\ backend = [calls |-> 1, resets |-> 0]
  /\ overlapped = {}
  /\ environ = DefaultEnviron
  /\ plugin = NoPlugin
  /\ http_post = NoPost

\* the bot handling two more updates after an earlier exchange of user 1
SpecEarlier == InitEarlier /\ [][Next]_vars

NextDeepl ==
  \/ Construct /\ UNCHANGED <<cacheVars, config, decision, botVars>>
  \/ \E text \in Texts, to_language \in Languages, outcome \in PostOutcomes :
        Execute(text, to_language, outcome) /\ UNCHANGED <<cacheVars, config, decision, botVars>>

\* the bot after construction, under any environment of Environs
InitDeepl ==
  /\ prev_conv_id_cache = <<>>
  /\ clock = 0
  /\ uuid_count = 0
  /\ last_call = NoCall
  /\ config = DefaultConfig
  /\ decision = NoDecision
  /\ gpt3_bot = [conversation_id |-> None, parent_id |-> None]
  /\ update = [r \in Reqs |-> NoUpdate]
  /\ pc = [r \in Reqs |-> "idle"]
  /\ local = [r \in Reqs |-> NoLocal]
  /\ typing_task = [r \in Reqs |-> NoTask]
  /\ sent = [r \in Reqs |-> <<>>]
  /\ backend = [calls |-> 0, resets |-> 0]
  /\ overlapped = {}
  /\ environ \in Environs
  /\ plugin = NoPlugin
  /\ http_post = NoPost

\* the translation plugin constructed and used under every environment
SpecDeepl == InitDeepl /\ [][NextDeepl]_vars

-----------------------------------------------------------------------------
(* Properties of the conversation cache (SpecCache).                         *)

\* the entry stored under k
EntryOf(d, k) == d[IndexOf(d, k)]

\* the entries of every user but k, as a set of [key, value, time]
Others(d, k) == {d[i] : i \in {j \in 1..Len(d) : d[j].key # k}}

\* a token no stored entry and no earlier generate_uuid call has produced
IsFreshToken(tok, d, n) ==
  /\ \A i \in 1..Len(d) : d[i].value[2] # tok
  /\ \A m \in 1..n : Uuid(m) # tok

\* C1: get_prev_conv_id(user) stores and returns (None, fresh token) when the
\* user has no live entry, returns the live entry's pair and leaves the entry
\* unchanged when there is one, and modifies no other user's entry unless the
\* store was at capacity.
C1_GetOrCreate ==
  [][\A u \in Users, d1 \in ClockDrift, d2 \in ClockDrift :
       CallGet(u, d1, d2) =>
         LET d == prev_conv_id_cache
             live == u \in Keys(d) /\ IsLive(EntryOf(d, u), clock)
         IN /\ live =>
                 /\ ~last_call'.raised
                 /\ last_call'.ret = EntryOf(d, u).value
                 /\ u \in Keys(prev_conv_id_cache')
                 /\ EntryOf(prev_conv_id_cache', u) = EntryOf(d, u)
            /\ ~live =>
                 /\ ~last_call'.raised
                 /\ last_call'.ret[1] = None
                 /\ IsFreshToken(last_call'.ret[2], d, uuid_count)
                 /\ u \in Keys(prev_conv_id_cache')
                 /\ EntryOf(prev_conv_id_cache', u).value = last_call'.ret
            /\ Len(d) < max_len => Others(prev_conv_id_cache', u) = Others(d, u)
    ]_vars

\* C2: set_prev_conv_id(u, c, p) immediately followed by get_prev_conv_id(u),
\* with no time passing, returns exactly (c, p), whatever the cache held.
C2_PutThenGet ==
  (last_call.op = "get" /\ last_call.after_set) =>
     (~last_call.raised /\ last_call.ret = last_call.value)

\* the put-then-get case at the capacity limit, the put having evicted
C2_Witness ==
  /\ last_call.op = "get" /\ last_call.after_set
  /\ last_call.age = 0
  /\ last_call.ret[1] \in ConvIds
  /\ Len(prev_conv_id_cache) = max_len
  /\ uuid_count >= max_len

\* C3: an entry older than the time-to-live is treated as absent by the next
\* get_prev_conv_id of its user, which returns (None, fresh token) and never
\* the expired pair; time passing alone removes nothing, and a read that
\* returns a live entry leaves its stored time as it was.
C3_Expiry ==
  /\ [][\A u \in Users, d1 \in ClockDrift, d2 \in ClockDrift :
          CallGet(u, d1, d2) =>
            LET d == prev_conv_id_cache
            IN /\ (u \in Keys(d) /\ clock - EntryOf(d, u).time > MAX_AGE_SECONDS) =>
                    /\ ~last_call'.raised
                    /\ last_call'.ret[1] = None
                    /\ IsFreshToken(last_call'.ret[2], d, uuid_count)
                    /\ last_call'.ret # EntryOf(d, u).value
               /\ (u \in Keys(d) /\ IsLive(EntryOf(d, u), clock) /\ ~last_call'.raised) =>
                    /\ u \in Keys(prev_conv_id_cache')
                    /\ EntryOf(prev_conv_id_cache', u).time = EntryOf(d, u).time
       ]_vars
  /\ [][clock' # clock /\ last_call' = last_call
          => prev_conv_id_cache' = prev_conv_id_cache]_vars

\* a get_prev_conv_id that found its user's entry older than the time-to-live
C3_Witness ==
  /\ last_call.op = "get"
  /\ last_call.age > MAX_AGE_SECONDS
  /\ last_call.ret[1] = None

\* C4: the cache never holds more than MAX_SESSION_NUM entries, and a step
\* that inserts a new key into a full cache drops at least one prior entry.
C4_Capacity ==
  /\ [](Len(prev_conv_id_cache) <= MAX_SESSION_NUM)
  /\ [][\A u \in Users :
          (/\ Len(prev_conv_id_cache) = MAX_SESSION_NUM
           /\ u \notin Keys(prev_conv_id_cache)
           /\ u \in Keys(prev_conv_id_cache'))
          => \E k \in Keys(prev_conv_id_cache) : k \notin Keys(prev_conv_id_cache')
       ]_vars

\* more entries created than the cache holds, with no time for any to expire
C4_Witness ==
  /\ clock = 0
  /\ Len(prev_conv_id_cache) = MAX_SESSION_NUM
  /\ uuid_count > MAX_SESSION_NUM

-----------------------------------------------------------------------------
(* Properties of the access policy (SpecAccess).                             *)

\* the ids an allow-list of the configuration lists explicitly
IdsOf(text, lists) == (CHOOSE l \in lists : l.text = text).ids

\* the rules of the access policy, over id sets
AccessRule(cfg, requester_id, chat_id, chat_kind) ==
  \/ cfg.allowed_user_ids = Star /\ chat_kind = PRIVATE
  \/ cfg.allowed_chat_ids = Star /\ chat_kind = GROUP
  \/ requester_id \in IdsOf(cfg.allowed_user_ids, UserLists) /\ chat_kind = PRIVATE
  \/ chat_id \in IdsOf(cfg.allowed_chat_ids, ChatLists) /\ chat_kind \in {GROUP, SUPERGROUP}

\* C5: for every requester, chat, chat kind (private, group, supergroup) and
\* configuration, is_allowed returns true exactly when a wildcard covers the
\* chat kind (users: private, chats: group) or the id is listed for it
\* (requester: private, chat: group or supergroup).
C5_AccessRules ==
  decision.chat_type \in {PRIVATE, GROUP, SUPERGROUP} =>
    (decision.allowed <=>
       AccessRule(config, decision.from_user_id, decision.chat_id, decision.chat_type))

\* a supergroup message admitted by the explicit chat list under a user wildcard
C5_Witness ==
  /\ decision.chat_type = SUPERGROUP
  /\ decision.allowed
  /\ config.allowed_user_ids = Star
  /\ decision.chat_id \in IdsOf(config.allowed_chat_ids, ChatLists)

\* C6: a wildcard only covers its own chat kind.  Under allowed_user_ids = "*"
\* every private message is allowed and a group message that allowed_chat_ids
\* does not admit is denied; the decision for a group or supergroup message is
\* the same under every allowed_user_ids, and the decision for a private
\* message is the same under every allowed_chat_ids.
C6_WildcardScope ==
  LET u == decision.from_user_id
      c == decision.chat_id
      k == decision.chat_type
  IN /\ (config.allowed_user_ids = Star /\ k = PRIVATE) => decision.allowed
     /\ (/\ config.allowed_user_ids = Star
         /\ k = GROUP
         /\ config.allowed_chat_ids # Star
         /\ c \notin IdsOf(config.allowed_chat_ids, ChatLists)) => ~decision.allowed
     /\ k \in {GROUP, SUPERGROUP} =>
          \A a \in UserLists :
             is_allowed([config EXCEPT !.allowed_user_ids = a.text], u, c, k)
               = decision.allowed
     /\ k = PRIVATE =>
          \A b \in ChatLists :
             is_allowed([config EXCEPT !.allowed_chat_ids = b.text], u, c, k)
               = decision.allowed

\* a group message denied although every user is allowed
C6_Witness ==
  /\ decision.chat_type = GROUP
  /\ ~decision.allowed
  /\ config.allowed_user_ids = Star

-----------------------------------------------------------------------------
(* Properties of the handlers (Spec).                                        *)

\* request r is a text message
IsPrompt(r) == update[r].handler = "prompt"

\* C7: get_chatgpt_response never raises.  Whatever fails inside it (the
\* cache lookup, the backend call, the storing of the returned tokens), it
\* returns the fixed fallback text, and prompt goes on to send that text as
\* its reply.
C7_TotalRecovery ==
  \A r \in Reqs :
     /\ pc[r] # "raised"
     /\ (IsPrompt(r) /\ local[r].failure # "none") =>
          /\ local[r].returned
          /\ local[r].message = FALLBACK
          /\ pc[r] \in {"send_reply", "done"}
          /\ pc[r] = "send_reply" => Outgoing(r) = FALLBACK
          /\ pc[r] = "done" => sent[r] = <<FALLBACK>>

\* one message answered with the fallback after its cache lookup failed,
\* another after its backend call raised
C7_Witness ==
  \E r \in Reqs, q \in Reqs :
     /\ local[r].failure = "lookup" /\ sent[r] = <<FALLBACK>>
     /\ local[q].failure = "backend" /\ sent[q] = <<FALLBACK>>

\* request r was handled from its start with no other request in flight,
\* and none has started since
Alone(r) ==
  /\ r \notin overlapped
  /\ \A q \in Reqs \ {r} : pc[q] \in {"idle", "done"} /\ (q > r => pc[q] = "idle")

\* C8: an allowed message handled alone whose backend call succeeds with
\* (reply, c, p): the backend was called with the tokens get_prev_conv_id
\* returned, (None, fresh token) for a user without an entry; the relay
\* returns the backend's reply; afterwards the user's cache entry is (c, p).
C8_SuccessPath ==
  \A r \in Reqs :
     (IsPrompt(r) /\ Alone(r) /\ local[r].returned /\ local[r].failure = "none") =>
        /\ local[r].called
        /\ local[r].sent_conversation_id = local[r].conversation_id
        /\ local[r].sent_parent_id = local[r].prev_conv_id
        /\ local[r].created =>
             /\ local[r].sent_conversation_id = None
             /\ \E n \in 1..uuid_count : local[r].sent_parent_id = Uuid(n)
        /\ local[r].message = REPLY
        /\ update[r].from_user \in Keys(prev_conv_id_cache)
        /\ EntryOf(prev_conv_id_cache, update[r].from_user).value = local[r].response

\* a first message of a user, answered, its tokens stored
C8_Witness ==
  /\ IsPrompt(1) /\ Alone(1) /\ pc[1] = "done"
  /\ local[1].created
  /\ sent[1] = <<REPLY>>
  /\ EntryOf(prev_conv_id_cache, update[1].from_user).value = <<<<"conv", 1>>, MessageId(1)>>

\* request r takes its first step, and is_allowed is false for it
StartsDenied(r) ==
  /\ pc[r] = "idle" /\ pc'[r] # "idle"
  /\ update'[r].handler \in {"prompt", "start", "reset"}
  /\ ~is_allowed(config, update'[r].from_user, update'[r].chat_id, update'[r].chat_type)

\* what a denied request must leave alone
DeniedFrame(r) ==
  /\ UNCHANGED <<prev_conv_id_cache, uuid_count, gpt3_bot, backend, typing_task, local>>
  /\ \A q \in Reqs \ {r} : sent'[q] = sent[q] /\ pc'[q] = pc[q]

\* C9: a text message, /start or /reset for which is_allowed is false only
\* sends the disallowed message: the backend is neither called nor reset, no
\* typing task is started, and the cache is left as it was.
C9_DeniedFrame ==
  [][\A r \in Reqs :
       /\ StartsDenied(r) =>
            /\ pc'[r] = "send_disallowed"
            /\ sent'[r] = sent[r]
            /\ DeniedFrame(r)
       /\ (pc[r] = "send_disallowed" /\ pc'[r] # pc[r]) =>
            /\ pc'[r] = "done"
            /\ sent'[r] = <<DISALLOWED>>
            /\ DeniedFrame(r)
    ]_vars

\* a denied text message and a denied /reset, both answered
C9_Witness ==
  /\ update[1].handler = "prompt" /\ sent[1] = <<DISALLOWED>>
  /\ update[2].handler = "reset" /\ sent[2] = <<DISALLOWED>>
  /\ backend = [calls |-> 0, resets |-> 0]
  /\ prev_conv_id_cache = <<>>

\* C10: once prompt has called typing_task.cancel() (line 113), the task
\* makes no further send_chat_action call, wherever it was when cancelled.
C10_NoTypingAfterCancel ==
  [][\A r \in Reqs :
       (IsPrompt(r) /\ pc[r] \in {"send_reply", "done"}) =>
          typing_task'[r].calls = typing_task[r].calls
    ]_vars

\* one task cancelled before it ever ran, another after its second signal
C10_Witness ==
  \E r \in Reqs, q \in Reqs :
     /\ typing_task[r].state = "cancelled" /\ typing_task[r].calls = 0
     /\ typing_task[q].state = "cancelled" /\ typing_task[q].calls = 2

\* C11: the typing task has terminated (its cancellation was awaited) by the
\* time prompt begins to send the reply, so that no typing signal of the
\* request can follow the start of that send.
C11_CancelJoinedBeforeReply ==
  \A r \in Reqs :
     (IsPrompt(r) /\ local[r].returned /\ pc[r] \in {"send_reply", "done"}) =>
        typing_task[r].state \in {"cancelled", "failed"}

\* C12: the conversation cache is the only mutable state handlers share:
\* while the backend call of a request is in flight on the client, no step of
\* another handler (a text message or /reset) writes the client's
\* conversation_id or parent_id.
C12_OnlyCacheShared ==
  [][\A r \in Reqs :
       (pc[r] = "await_backend" /\ pc'[r] = "await_backend") => gpt3_bot' = gpt3_bot
    ]_vars

\* requests r and q are text messages of one user that were both submitted
\* to the backend with the same continuity tokens
SameSnapshot(r, q) ==
  /\ r # q
  /\ IsPrompt(r) /\ IsPrompt(q)
  /\ update[r].from_user = update[q].from_user
  /\ local[r].called /\ local[q].called
  /\ local[r].sent_conversation_id = local[q].sent_conversation_id
  /\ local[r].sent_parent_id = local[q].sent_parent_id

\* the backend call of request r returns successfully in this step
RepliesNow(r) ==
  pc[r] = "await_backend" /\ pc'[r] = "send_reply" /\ local'[r].failure = "none"

\* C14: two messages of one user handled concurrently can both read the same
\* snapshot and both call the backend with it; when the second response
\* arrives, its set_prev_conv_id overwrites what the first one stored: the
\* entry then holds the later response's tokens and the earlier response's
\* tokens are in the cache no more.
C14_SameUserRace ==
  [][\A r \in Reqs, q \in Reqs :
       (SameSnapshot(r, q) /\ RepliesNow(r)
          /\ local[q].returned /\ local[q].failure = "none") =>
         LET u == update[r].from_user
         IN /\ EntryOf(prev_conv_id_cache, u).value = local[q].response
            /\ EntryOf(prev_conv_id_cache', u).value = local'[r].response
            /\ local'[r].response # local[q].response
            /\ \A i \in 1..Len(prev_conv_id_cache') :
                  prev_conv_id_cache'[i].value # local[q].response
    ]_vars

\* both messages of user 1 were answered from one snapshot; the entry holds
\* the tokens of the first message's response, which arrived last
C14_Witness ==
  /\ SameSnapshot(1, 2)
  /\ update[1].from_user = 1
  /\ sent[1] = <<REPLY>> /\ sent[2] = <<REPLY>>
  /\ local[1].created /\ ~local[2].created
  /\ EntryOf(prev_conv_id_cache, 1).value = local[1].response
  /\ local[2].response # local[1].response

\* request r invokes get_chat_response in this step
CallsNow(r) == pc[r] = "idle" /\ pc'[r] = "await_backend"

\* C15: when a handler invokes get_chat_response, the shared client holds the
\* (conversation_id, prior_message_id) this handler has just read from the
\* requesting user's entry, whatever other requests are in flight, and not
\* the tokens an in-flight request of another user was submitted with.
C15_OwnTokensAtCall ==
  [][\A r \in Reqs :
       CallsNow(r) =>
         LET u == update'[r].from_user
             e == EntryOf(prev_conv_id_cache', u)
         IN /\ u \in Keys(prev_conv_id_cache')
            /\ local'[r].conversation_id = e.value[1]
            /\ local'[r].prev_conv_id = e.value[2]
            /\ gpt3_bot' = [conversation_id |-> e.value[1], parent_id |-> e.value[2]]
            /\ local'[r].sent_conversation_id = e.value[1]
            /\ local'[r].sent_parent_id = e.value[2]
            /\ \A q \in Reqs \ {r} :
                  (local[q].called /\ update[q].from_user # u) =>
                     gpt3_bot'.parent_id # local[q].sent_parent_id
    ]_vars

\* the messages of two users are in flight together: the client holds the
\* tokens of the second, the first was submitted with its own
C15_Witness ==
  /\ pc[1] = "await_backend" /\ pc[2] = "await_backend"
  /\ update[1].from_user # update[2].from_user
  /\ gpt3_bot.parent_id = local[2].prev_conv_id
  /\ gpt3_bot.parent_id # local[1].sent_parent_id
  /\ local[1].sent_parent_id = local[1].prev_conv_id

\* an allowed /reset of request r calls reset_chat in this step
ResetsNow(r) == pc[r] = "idle" /\ pc'[r] = "send_done"

\* before request r, a text message, the same user's allowed /reset was
\* the only other update
FollowsReset(r) ==
  \E q \in Reqs :
     /\ q < r
     /\ update[q].handler = "reset"
     /\ update[q].from_user = update'[r].from_user
     /\ pc[q] \in {"send_done", "done"}

FailsNow(r) ==
  pc[r] = "await_backend" /\ pc'[r] = "send_reply" /\ local'[r].failure = "backend"

\* what a failing backend call of request r leaves in the cache: nothing is
\* stored; handled with no other request in flight, the user's entry is the
\* one the lookup returned, (None, fresh token) when the lookup created it
FailureFrame(r) ==
  LET u == update[r].from_user
      e == EntryOf(prev_conv_id_cache', u)
  IN /\ prev_conv_id_cache' = prev_conv_id_cache
     /\ uuid_count' = uuid_count
     /\ r \notin overlapped =>
          /\ u \in Keys(prev_conv_id_cache')
          /\ e.value = <<local[r].sent_conversation_id, local[r].sent_parent_id>>
          /\ local[r].created =>
               /\ e.value[1] = None
               /\ \E n \in 1..uuid_count : e.value[2] = Uuid(n)

\* request r is the first message of its user after the backend call of
\* that user's message q failed
NextAfterFailed(r, q) ==
  /\ q < r
  /\ IsPrompt(q)
  /\ update[q].from_user = update'[r].from_user
  /\ local[q].failure = "backend"
  /\ pc[q] \in {"send_reply", "done"}

\* request r is submitted with the tokens request q was submitted with
SameTokens(r, q) ==
  /\ local'[r].sent_conversation_id = local[q].sent_conversation_id
  /\ local'[r].sent_parent_id = local[q].sent_parent_id

IsCreatedEntry(e) ==
  e.value[1] = None /\ \E n \in 1..uuid_count' : e.value[2] = Uuid(n)

\* an entry as a successful exchange leaves it: the ids of a response
IsPersistedEntry(e) ==
  /\ e.value[1] \in ConvIds
  /\ e.value[2] # None
  /\ \E r \in Reqs :
        /\ update'[r].from_user = e.key
        /\ local'[r].returned /\ local'[r].failure = "none"
        /\ e.value = local'[r].response

\* C19: every cache entry has a prior_message_id; its conversation_id is
\* None from the step that creates it until a successful exchange of its
\* user is stored, and from then on it holds the ids of a backend response.
\* An entry changes in no other way.
C19_EntryInvariant ==
  [][\A u \in BotUsers :
       u \in Keys(prev_conv_id_cache') =>
         LET e == EntryOf(prev_conv_id_cache', u)
         IN /\ e.value[2] # None
            /\ IsCreatedEntry(e) \/ IsPersistedEntry(e)
            /\ \/ /\ u \in Keys(prev_conv_id_cache)
                  /\ e.value = EntryOf(prev_conv_id_cache, u).value
               \/ \E r \in Reqs :
                     /\ pc[r] = "idle" /\ local'[r].created
                     /\ update'[r].from_user = u
                     /\ e.value = <<None, Uuid(uuid_count')>>
                     /\ uuid_count' = uuid_count + 1
               \/ \E r \in Reqs :
                     /\ RepliesNow(r)
                     /\ update[r].from_user = u
                     /\ e.value = local'[r].response
                     /\ IsPersistedEntry(e)
    ]_vars

\* the entry of user 1 holds the ids of a response, the entry of user 12,
\* whose first message is still with the backend, has no conversation_id yet
C19_Witness ==
  /\ Keys(prev_conv_id_cache) = {1, 12}
  /\ EntryOf(prev_conv_id_cache, 1).value = <<<<"conv", 1>>, MessageId(1)>>
  /\ EntryOf(prev_conv_id_cache, 12).value[1] = None
  /\ EntryOf(prev_conv_id_cache, 12).value[2] = local[2].prev_conv_id
  /\ pc[2] = "await_backend"

\* C18: for an allowed text message, the typing task keeps emitting for as
\* long as the backend call has not resolved; once the call has resolved,
\* by success or by failure, the task is cancelled, and exactly one reply,
\* the backend's text or the fallback, is sent after the cancellation.
C18_TypingUntilResolved ==
  \A r \in Reqs :
     (IsPrompt(r) /\ local[r].called) =>
        /\ pc[r] = "await_backend" =>
             /\ typing_task[r].state \in {"scheduled", "emitting", "sleeping"}
             /\ ~typing_task[r].must_cancel
             /\ sent[r] = <<>>
        /\ pc[r] \in {"send_reply", "done"} =>
             typing_task[r].must_cancel \/ typing_task[r].state = "cancelled"
        /\ pc[r] = "done" => sent[r] \in {<<REPLY>>, <<FALLBACK>>}

-----------------------------------------------------------------------------
(* Properties of the translation plugin (SpecDeepl).                         *)

\* C13: constructing DeeplTranslatePlugin raises ValueError whenever
\* DEEPL_API_KEY is unset or empty or DEEPL_API_PRO is unset, and a plugin
\* that was constructed has a non-empty api_key.
C13_ConstructionRejects ==
  /\ (plugin.state # "none"
        /\ (environ.DEEPL_API_KEY \in {None, <<>>} \/ environ.DEEPL_API_PRO = None))
       => plugin.state = "ValueError"
  /\ plugin.state = "constructed" =>
       plugin.api_key = environ.DEEPL_API_KEY /\ plugin.api_key \notin {None, <<>>}

\* construction was rejected with a key set and the tier flag unset
C13_Witness ==
  /\ plugin.state = "ValueError"
  /\ environ.DEEPL_API_KEY = <<"k", "1">>
  /\ environ.DEEPL_API_PRO = None

\* C20: execute posts to the pro URL when api_pro is true and to the free URL
\* otherwise; every constructed plugin has api_pro true, under an environment
\* whose DEEPL_API_PRO is a spelling of true, and no request goes to the free
\* URL.
C20_ProEndpointOnly ==
  /\ plugin.state = "constructed" =>
       /\ plugin.api_pro
       /\ lower(environ.DEEPL_API_PRO) = TRUE_TEXT
  /\ http_post # NoPost =>
       /\ plugin.state = "constructed"
       /\ http_post.url = (IF plugin.api_pro THEN PRO_URL ELSE FREE_URL)
       /\ http_post.url = PRO_URL
       /\ http_post.authorization = <<"DeepL-Auth-Key", plugin.api_key>>

\* a plugin constructed under DEEPL_API_PRO=TRUE has posted a translation
C20_Witness ==
  /\ plugin.state = "constructed"
  /\ environ.DEEPL_API_PRO = <<"T", "R", "U", "E">>
  /\ http_post.url = PRO_URL
  /\ http_post.outcome = "translated"

=============================================================================
